---- MODULE Spec2Model ----
(***************************************************************************)
(* A model of the two forecasting scripts of the repository:               *)
(*   winters.py      _get_period, _get_initial_params, forecast            *)
(*   arima_final.py  forecast                                              *)
(* Observations are integers, dates are day ordinals, a table is a record  *)
(* of an index and named columns held in a heap of table objects, so that  *)
(* df.copy() and in-place column assignment are distinguishable.           *)
(* Logarithms are fixed point (two decimals, LnTable); correlations are    *)
(* kept exact as c / sqrt(v).  Results of the statistical libraries that   *)
(* the scripts only pass along (regression coefficients, fitted values,    *)
(* predictions, spline values) are drawn from small families.              *)
(***************************************************************************)
EXTENDS Integers, Sequences, FiniteSets, TLC

VARIABLES
    entry,            \* the function the caller invokes
    pc,               \* position in that function
    heap,             \* the table objects; object 1 is the caller's
    passed,           \* the caller's table as it was when the call was made
    log,              \* the log argument of winters.forecast
    corr_threshold,   \* the corr_threshold argument of _get_period
    periods,          \* the periods argument of arima_final.forecast
    lib,              \* what the spline gives a missing observation
    acf, peaks, candidate, period, corr,    \* locals and result of _get_period
    df_log,           \* the working copy (a heap reference)
    params,           \* initial_level, initial_trend, initial_seasonal
    fit,              \* the fitted model
    result,           \* the returned value
    err               \* the call that raised

inputs == <<entry, passed, log, corr_threshold, periods, lib>>

detector == <<acf, peaks, candidate, period, corr>>

vars == <<inputs, pc, heap, detector, df_log, params, fit, result, err>>

(***************************************************************************)
(* Bounds of the model.                                                    *)
(***************************************************************************)
MaxLen == 5          \* longest input series
MaxVal == 2          \* largest observation (seconds)
MaxPeriods == 2      \* largest `periods` argument of the ARIMA forecast

(***************************************************************************)
(* Program constants.                                                      *)
(***************************************************************************)
SENTINEL == 3600     \* replace(0, 3600)
EXTRA_DAYS == 7      \* n_periods = periods + 7
NaN == 0 - 999999    \* np.nan, also standing for every non-finite float
DefaultThreshold == <<1, 5>>   \* corr_threshold = 0.2

None == <<>>

(***************************************************************************)
(* Arithmetic helpers.                                                     *)
(***************************************************************************)
Abs(x) == IF x < 0 THEN 0 - x ELSE x

Max(a, b) == IF a >= b THEN a ELSE b

RECURSIVE Gcd(_, _)
Gcd(a, b) == IF b = 0 THEN a ELSE Gcd(b, a % b)

RECURSIVE SumSeq(_)
SumSeq(s) == IF s = <<>> THEN 0 ELSE s[1] + SumSeq(Tail(s))

\* s[k:] and s[:-k] of Python, for k >= 1
DropFirst(s, k) == SubSeq(s, k + 1, Len(s))
DropLast(s, k) == SubSeq(s, 1, Len(s) - k)

(***************************************************************************)
(* _get_period                                                             *)
(***************************************************************************)
\* np.correlate(data, data, 'full')[-len(data):] : entry lag+1 holds lag `lag`
Correlate(data) ==
    [k \in 1..Len(data) |->
        SumSeq([i \in 1..(Len(data) - (k - 1)) |-> data[i] * data[i + k - 1]])]

\* np.diff
Diff(s) == [i \in 1..(Len(s) - 1) |-> s[i + 1] - s[i]]

Sign(x) == IF x > 0 THEN 1 ELSE IF x < 0 THEN 0 - 1 ELSE 0

\* np.sign
SignSeq(s) == [i \in 1..Len(s) |-> Sign(s[i])]

Inflection(a) == Diff(SignSeq(Diff(a)))

RECURSIVE NegativeFrom(_, _)
NegativeFrom(infl, j) ==
    IF j > Len(infl) THEN <<>>
    ELSE IF infl[j] < 0 THEN <<j>> \o NegativeFrom(infl, j + 1)
    ELSE NegativeFrom(infl, j + 1)

RECURSIVE NonPositiveFrom(_, _)
NonPositiveFrom(infl, j) ==
    IF j > Len(infl) THEN <<>>
    ELSE IF infl[j] <= 0 THEN <<j>> \o NonPositiveFrom(infl, j + 1)
    ELSE NonPositiveFrom(infl, j + 1)

\* Peaks with a fault: (inflection <= 0)
PeaksNonPositive(a) == NonPositiveFrom(Inflection(a), 1)

\* Peaks with a fault: the offset added twice
PeaksOffByOne(a) ==
    LET pk == NegativeFrom(Inflection(a), 1)
    IN  [j \in 1..Len(pk) |-> pk[j] + 1]

\* (inflection < 0).nonzero()[0] + 1 : 0-based position j of inflection is
\* entry j+1 of the sequence, so the lag j + 1 is the sequence index itself
Peaks(a) == NegativeFrom(Inflection(a), 1)

RECURSIVE ArgMaxFrom(_, _, _)
ArgMaxFrom(s, j, best) ==
    IF j > Len(s) THEN best
    ELSE IF s[j] > s[best] THEN ArgMaxFrom(s, j + 1, j)
    ELSE ArgMaxFrom(s, j + 1, best)

RECURSIVE ArgMaxLastFrom(_, _, _)
ArgMaxLastFrom(s, j, best) ==
    IF j > Len(s) THEN best
    ELSE IF s[j] >= s[best] THEN ArgMaxLastFrom(s, j + 1, j)
    ELSE ArgMaxLastFrom(s, j + 1, best)

\* ArgMax with a fault: the last largest entry
ArgMaxLast(s) == ArgMaxLastFrom(s, 2, 1)

\* ndarray.argmax(): index of the first largest entry (1-based here)
ArgMax(s) == ArgMaxFrom(s, 2, 1)

\* peaks[acf[peaks].argmax()]
CandidatePeriod(a, pk) == pk[ArgMax([j \in 1..Len(pk) |-> a[pk[j] + 1]])]

\* np.corrcoef(x, y)[0, 1] as c / sqrt(v); 0/0 is nan
Corrcoef(x, y) ==
    LET m == Len(x)
        sx == SumSeq(x)
        sy == SumSeq(y)
        c == m * SumSeq([i \in 1..m |-> x[i] * y[i]]) - sx * sy
        vx == m * SumSeq([i \in 1..m |-> x[i] * x[i]]) - sx * sx
        vy == m * SumSeq([i \in 1..m |-> y[i] * y[i]]) - sy * sy
    IN  IF vx * vy = 0 THEN [nan |-> TRUE, c |-> 0, v |-> 0]
        ELSE [nan |-> FALSE, c |-> c, v |-> vx * vy]

Zero == [nan |-> FALSE, c |-> 0, v |-> 1]

\* Below with a fault: corr > t
Above(r, t) ==
    IF r.nan THEN FALSE
    ELSE IF t[1] >= 0
         THEN r.c > 0 /\ t[2] * t[2] * r.c * r.c > t[1] * t[1] * r.v
         ELSE r.c >= 0 \/ t[2] * t[2] * r.c * r.c < t[1] * t[1] * r.v

\* corr < t for t = t[1] / t[2], t[2] > 0; every comparison with nan is False
Below(r, t) ==
    IF r.nan THEN FALSE
    ELSE IF t[1] >= 0
         THEN r.c < 0 \/ t[2] * t[2] * r.c * r.c < t[1] * t[1] * r.v
         ELSE r.c < 0 /\ t[2] * t[2] * r.c * r.c > t[1] * t[1] * r.v

\* the locals of _get_period at its return
GetPeriod(data, threshold) ==
    LET a == Correlate(data)
        pk == Peaks(a)
    IN  IF Len(pk) = 0
        THEN [acf |-> a, peaks |-> pk, candidate |-> 0, period |-> 1,
              corr |-> Zero]
        ELSE LET p == CandidatePeriod(a, pk)
                 r == Corrcoef(DropFirst(data, p), DropLast(data, p))
             IN  IF Below(r, threshold) \/ p = 1
                 THEN [acf |-> a, peaks |-> pk, candidate |-> p, period |-> 1,
                       corr |-> r]
                 ELSE [acf |-> a, peaks |-> pk, candidate |-> p, period |-> p,
                       corr |-> r]

(***************************************************************************)
(* Tables (DataFrame / Series) and the heap that holds them.               *)
(***************************************************************************)
Table(index, value) == [index |-> index, cols |-> [value |-> value]]

Column(t, name) == IF name \in DOMAIN t.cols THEN t.cols[name]
                   ELSE [i \in 1..Len(t.index) |-> NaN]

\* df.copy(): a new object with the same contents
DfCopy(h, ref) == [heap |-> Append(h, h[ref]), ref |-> Len(h) + 1]

\* df[name] = vals : in place on the object `ref` names
SetColumn(h, ref, name, vals) ==
    [h EXCEPT ![ref] = [index |-> @.index, cols |-> (name :> vals) @@ @.cols]]

\* pd.date_range(start=start, periods=k, freq='D')
DateRange(start, k) == [i \in 1..k |-> start + (i - 1)]

DaysInYear == 365

\* DatetimeIndex.dayofyear (no leap years)
DayOfYear(d) == ((d - 1) % DaysInYear) + 1

(***************************************************************************)
(* Zero handling and the log transform (winters.py 29-33 and 76-80).       *)
(***************************************************************************)
\* round(100 * ln k) for k = 1..16
LnTable == <<0, 69, 110, 139, 161, 179, 195, 208, 220, 230, 240, 248, 256,
             264, 271, 277>>

\* np.log: nan for nan and for a negative argument, -inf (non-finite) for 0
Log(x) == IF x = NaN \/ x <= 0 THEN NaN ELSE LnTable[x]

\* np.exp
Exp(y) == IF y = NaN THEN NaN
          ELSE CHOOSE k \in 1..Len(LnTable) : LnTable[k] = y

\* Series.replace(old, new)
Replace(s, old, new) == [i \in 1..Len(s) |-> IF s[i] = old THEN new ELSE s[i]]

Valid(s) == {i \in 1..Len(s) : s[i] # NaN}

\* CubicSpline needs two points; pandas returns early when nothing or
\* everything is missing
InterpolateRaises(s) ==
    /\ Cardinality(Valid(s)) = 1
    /\ Cardinality(Valid(s)) < Len(s)

\* Series.interpolate(method='cubicspline'), limit_direction forward: the
\* missing values before the first valid one stay missing, the others take
\* the spline's value
Interpolate(s, fill) ==
    IF Valid(s) = {} THEN s
    ELSE LET first == CHOOSE i \in Valid(s) : \A j \in Valid(s) : i <= j
         IN  [i \in 1..Len(s) |->
                 IF s[i] # NaN THEN s[i] ELSE IF i < first THEN NaN ELSE fill]

ZeroHandlingRaises(col, lg) == lg /\ InterpolateRaises(Replace(col, 0, NaN))

ZeroHandling(col, lg, fill) ==
    IF lg
    THEN LET filled == Interpolate(Replace(col, 0, NaN), fill)
         IN  [i \in 1..Len(col) |-> Log(filled[i])]
    ELSE Replace(col, 0, SENTINEL)

(***************************************************************************)
(* _get_initial_params                                                     *)
(***************************************************************************)
\* DecomposeRaises with a fault: no check of the number of cycles
DecomposeRaisesOnMissing(col, p) == \E i \in 1..Len(col) : col[i] = NaN

\* seasonal_decompose raises on a non-finite value and on fewer than two
\* complete cycles
DecomposeRaises(col, p) ==
    \/ \E i \in 1..Len(col) : col[i] = NaN
    \/ Len(col) < 2 * p

\* (intercept, slope) pairs the regression may return
OlsFits == {<<1, 0>>, <<2, 1>>}

\* exact fractions <<numerator, denominator>>, denominator > 0, reduced
Rat(n, d) == LET g == Gcd(Abs(n), d) IN <<n \div g, d \div g>>

RatAdd(a, b) == Rat(a[1] * b[2] + b[1] * a[2], a[2] * b[2])

RECURSIVE RatSum(_)
RatSum(s) == IF s = <<>> THEN <<0, 1>> ELSE RatAdd(s[1], RatSum(Tail(s)))

\* Series.mean()
Mean(s) == LET t == RatSum(s) IN Rat(t[1], t[2] * Len(s))

One == <<1, 1>>

\* df_log['DS'] = initial_level + initial_trend * dayofyear
TrendLine(index, level, trend) ==
    [i \in 1..Len(index) |-> level + trend * DayOfYear(index[i])]

\* df_log['Seasonal Factor'] = df_log[column] / df_log['DS']
SeasonalFactor(col, ds) == [i \in 1..Len(col) |-> Rat(col[i], ds[i])]

\* s[i::step] of Python, i 0-based
RECURSIVE Stride(_, _, _)
Stride(s, i, step) ==
    IF i + 1 > Len(s) THEN <<>>
    ELSE <<s[i + 1]>> \o Stride(s, i + step, step)

\* InitialSeasonal with a fault: for i in range(1, period + 1)
InitialSeasonalOneBased(sf, p) ==
    IF p = 1 THEN <<One>>
    ELSE [k \in 1..p |-> Mean(Stride(sf, k, p))]

\* lines 52-57
InitialSeasonal(sf, p) ==
    IF p = 1 THEN <<One>>
    ELSE [k \in 1..p |-> Mean(Stride(sf, k - 1, p))]

(***************************************************************************)
(* forecast (winters.py)                                                   *)
(***************************************************************************)
\* multiplicative seasonality needs strictly positive data
FitRaises(col, p) == p # 1 /\ \E i \in 1..Len(col) : col[i] <= 0

FitBases == {1, 2}

\* a library value in the scale of the fitted series
Scale(k, lg) == IF lg THEN LnTable[k] ELSE k

\* winters_model.fittedvalues : one value per input date
FittedValues(n, base, lg) == [i \in 1..n |-> Scale(base + i, lg)]

\* winters_model.forecast(k)
Forecast(n, base, lg, k) == [j \in 1..k |-> Scale(base + n + j, lg)]

ColumnNames(a, b) == DOMAIN a.cols \cup DOMAIN b.cols

\* DataFrame.append(other): the rows of other after the rows of self, the
\* columns of both, nan where a frame lacks a column
AppendRows(a, b) ==
    [index |-> a.index \o b.index,
     cols |-> [c \in ColumnNames(a, b) |-> Column(a, c) \o Column(b, c)]]

\* df[[names]] = np.exp(df[[names]])
ExpColumns(t, names) ==
    [index |-> t.index,
     cols |-> [c \in DOMAIN t.cols |->
                 IF c \in names
                 THEN [i \in 1..Len(t.cols[c]) |-> Exp(t.cols[c][i])]
                 ELSE t.cols[c]]]

(***************************************************************************)
(* forecast (arima_final.py)                                               *)
(***************************************************************************)
SeqRange(s) == {s[i] : i \in 1..Len(s)}

RECURSIVE SortedSeq(_)
SortedSeq(S) ==
    IF S = {} THEN <<>>
    ELSE LET m == CHOOSE x \in S : \A y \in S : x <= y
         IN  <<m>> \o SortedSeq(S \ {m})

ValueAt(index, vals, d) ==
    IF d \in SeqRange(index)
    THEN vals[CHOOSE i \in 1..Len(index) : index[i] = d]
    ELSE NaN

\* pd.concat([series, frame], axis=1): outer join on the index
ConcatColumns(index1, value, index2, fc) ==
    LET idx == SortedSeq(SeqRange(index1) \cup SeqRange(index2))
    IN  [index |-> idx,
         cols |-> [value |-> [i \in 1..Len(idx) |-> ValueAt(index1, value, idx[i])],
                   FORECAST |-> [i \in 1..Len(idx) |-> ValueAt(index2, fc, idx[i])]]]

\* ForecastStart with a fault: the predictions dated from the day after the last
ForecastStartNextDay(last_day, k) == last_day + 1

\* start=last_day - pd.DateOffset(days=periods - 1)
ForecastStart(last_day, k) == last_day - (k - 1)

\* n_periods = periods + 7
Horizon(k) == k + EXTRA_DAYS

\* model.predict(n_periods=k)[0]
Predict(base, k) == [j \in 1..k |-> base + j]

(***************************************************************************)
(* Inputs.                                                                 *)
(***************************************************************************)
Series == UNION {[1..n -> 0..MaxVal] : n \in 0..MaxLen}

FirstDays == {1, 10}

Thresholds == {<<1, 5>>, <<1, 2>>, <<0 - 1, 2>>}

\* values the cubic spline may give a missing observation
SplineVals == {0 - 1, 2}

Entries == {"get_period", "forecast", "arima"}

\* the caller's table is object 1 of the heap
df == 1

Input == heap[df].cols.value

InputIndex == heap[df].index

Init ==
    /\ entry \in Entries
    /\ pc = "start"
    /\ \E data \in Series, first \in FirstDays :
           heap = <<Table(DateRange(first, Len(data)), data)>>
    /\ passed = heap[1]
    /\ log \in IF entry = "forecast" THEN BOOLEAN ELSE {FALSE}
    /\ corr_threshold \in IF entry = "get_period" THEN Thresholds
                          ELSE {DefaultThreshold}
    /\ periods \in IF entry = "arima" THEN 1..MaxPeriods ELSE {0}
    /\ lib \in IF entry = "forecast" /\ log
               THEN {[fill |-> v] : v \in SplineVals}
               ELSE {[fill |-> NaN]}
    /\ acf = None
    /\ peaks = None
    /\ candidate = 0
    /\ period = 0
    /\ corr = None
    /\ df_log = 0
    /\ params = None
    /\ fit = None
    /\ result = None
    /\ err = None

Raise(e) ==
    /\ pc' = "raised"
    /\ err' = e
    /\ UNCHANGED result

(***************************************************************************)
(* winters.py                                                              *)
(***************************************************************************)
\* _get_period(data, corr_threshold), called directly or at line 26
CallGetPeriod ==
    /\ pc = "start"
    /\ entry \in {"get_period", "forecast"}
    /\ IF Len(Input) = 0
       THEN /\ Raise("np.correlate")
            /\ UNCHANGED detector
       ELSE LET r == GetPeriod(Input, corr_threshold)
            IN  /\ acf' = r.acf
                /\ peaks' = r.peaks
                /\ candidate' = r.candidate
                /\ period' = r.period
                /\ corr' = r.corr
                /\ err' = err
                /\ IF entry = "get_period"
                   THEN pc' = "done" /\ result' = <<r.period, r.corr>>
                   ELSE pc' = "period" /\ result' = result
    /\ UNCHANGED <<inputs, heap, df_log, params, fit>>

\* lines 28-33 and 75-80: the working copy and its zero handling
WorkingCopy(h, lg, fill) ==
    LET c == DfCopy(h, df)
        col == c.heap[c.ref].cols.value
    IN  [heap |-> SetColumn(c.heap, c.ref, "value", ZeroHandling(col, lg, fill)),
         ref |-> c.ref]

\* _get_initial_params, lines 28-33
Preprocess ==
    /\ pc = "period"
    /\ IF ZeroHandlingRaises(Input, log)
       THEN /\ Raise("interpolate")
            /\ UNCHANGED <<heap, df_log>>
       ELSE LET w == WorkingCopy(heap, log, lib.fill)
            IN  /\ heap' = w.heap
                /\ df_log' = w.ref
                /\ pc' = "prepared"
                /\ UNCHANGED <<err, result>>
    /\ UNCHANGED <<inputs, detector, params, fit>>

\* _get_initial_params, lines 36-37
Decompose ==
    /\ pc = "prepared"
    /\ IF DecomposeRaises(heap[df_log].cols.value, period)
       THEN Raise("seasonal_decompose")
       ELSE pc' = "decomposed" /\ UNCHANGED <<err, result>>
    /\ UNCHANGED <<inputs, heap, detector, df_log, params, fit>>

\* _get_initial_params, lines 40-50
Regress ==
    /\ pc = "decomposed"
    /\ \E ols \in OlsFits :
           LET t == heap[df_log]
               ds == TrendLine(t.index, ols[1], ols[2])
               h1 == SetColumn(heap, df_log, "DS", ds)
           IN  /\ heap' = SetColumn(h1, df_log, "Seasonal Factor",
                                    SeasonalFactor(t.cols.value, ds))
               /\ params' = [initial_level |-> ols[1],
                             initial_trend |-> ols[2],
                             initial_seasonal |-> None]
    /\ pc' = "regressed"
    /\ UNCHANGED <<inputs, detector, df_log, fit, result, err>>

\* _get_initial_params, lines 52-59
ReturnParams ==
    /\ pc = "regressed"
    /\ params' = [params EXCEPT !.initial_seasonal =
                      InitialSeasonal(heap[df_log].cols["Seasonal Factor"], period)]
    /\ pc' = "params"
    /\ UNCHANGED <<inputs, heap, detector, df_log, fit, result, err>>

\* forecast, lines 75-80
Transform ==
    /\ pc = "params"
    /\ IF ZeroHandlingRaises(Input, log)
       THEN /\ Raise("interpolate")
            /\ UNCHANGED <<heap, df_log>>
       ELSE LET w == WorkingCopy(heap, log, lib.fill)
            IN  /\ heap' = w.heap
                /\ df_log' = w.ref
                /\ pc' = "transformed"
                /\ UNCHANGED <<err, result>>
    /\ UNCHANGED <<inputs, detector, params, fit>>

\* forecast, lines 82-106
Fit ==
    /\ pc = "transformed"
    /\ IF FitRaises(heap[df_log].cols.value, period)
       THEN Raise("ExponentialSmoothing") /\ UNCHANGED fit
       ELSE /\ \E base \in FitBases :
                   fit' = [base |-> base,
                           fittedvalues |->
                               FittedValues(Len(heap[df_log].index), base, log)]
            /\ pc' = "fitted"
            /\ UNCHANGED <<err, result>>
    /\ UNCHANGED <<inputs, heap, detector, df_log, params>>

\* NumPeriods with a fault: one step too many
NumPeriodsPlusOne(p) == p + 1

\* line 109
NumPeriods(p) == p

\* lines 111-114
ForecastFrame(last_day, n, base, lg, k) ==
    [index |-> DateRange(last_day + 1, k),
     cols |-> [FORECAST |-> Forecast(n, base, lg, k)]]

\* lines 117-118
BackTransform(t, lg) ==
    IF lg THEN ExpColumns(t, {"value", "FORECAST"}) ELSE t

\* forecast, lines 108-121
Assemble ==
    /\ pc = "fitted"
    /\ LET index == heap[df_log].index
           last_day == index[Len(index)]
           num_periods == NumPeriods(period)
           h1 == SetColumn(heap, df_log, "FORECAST", fit.fittedvalues)
           frame == ForecastFrame(last_day, Len(index), fit.base, log, num_periods)
           df_forecast == BackTransform(AppendRows(h1[df_log], frame), log)
       IN  /\ heap' = Append(h1, df_forecast)
           /\ result' = Len(h1) + 1
    /\ pc' = "done"
    /\ UNCHANGED <<inputs, detector, df_log, params, fit, err>>

(***************************************************************************)
(* arima_final.py                                                          *)
(***************************************************************************)
\* forecast, lines 19-32: the model is fitted on df[:-periods]
ArimaFit ==
    /\ pc = "start"
    /\ entry = "arima"
    /\ IF Len(DropLast(Input, periods)) = 0
       THEN Raise("model.fit") /\ UNCHANGED fit
       ELSE /\ \E base \in FitBases : fit' = [base |-> base]
            /\ pc' = "arima_fitted"
            /\ UNCHANGED <<err, result>>
    /\ UNCHANGED <<inputs, heap, detector, df_log, params>>

\* forecast, lines 35-40
ArimaPredict ==
    /\ pc = "arima_fitted"
    /\ LET last_day == InputIndex[Len(InputIndex)]
           forecast_range == DateRange(ForecastStart(last_day, periods),
                                       Horizon(periods))
           df_forecast == ConcatColumns(InputIndex, Input, forecast_range,
                                        Predict(fit.base, Horizon(periods)))
       IN  /\ heap' = Append(heap, df_forecast)
           /\ result' = Len(heap) + 1
    /\ pc' = "done"
    /\ UNCHANGED <<inputs, detector, df_log, params, fit, err>>

Next ==
    \/ CallGetPeriod
    \/ Preprocess
    \/ Decompose
    \/ Regress
    \/ ReturnParams
    \/ Transform
    \/ Fit
    \/ Assemble
    \/ ArimaFit
    \/ ArimaPredict

Spec == Init /\ [][Next]_vars

(***************************************************************************)
(* Vocabulary of the properties.                                           *)
(***************************************************************************)
\* _get_period has returned
Detected == entry # "arima" /\ pc # "start" /\ err # "np.correlate"

\* the autocorrelation at lag k
AcfAt(k) == acf[k + 1]

N == Len(Input)

Returned(e) == entry = e /\ pc = "done"

Out == heap[result]

InputUnchanged == heap[df] = passed

\* corr >= t for t = t[1] / t[2], for a corr that is a number
AtLeast(r, t) ==
    IF t[1] >= 0
    THEN r.c >= 0 /\ t[2] * t[2] * r.c * r.c >= t[1] * t[1] * r.v
    ELSE r.c >= 0 \/ t[2] * t[2] * r.c * r.c <= t[1] * t[1] * r.v

IsBelow(r, t) == ~r.nan /\ ~AtLeast(r, t)

\* the lags the detector is said to take as candidate peaks
PeakLags ==
    {i \in 1..(N - 2) :
        Sign(AcfAt(i) - AcfAt(i - 1)) > Sign(AcfAt(i + 1) - AcfAt(i))}

IsConstant(s) == \A i, j \in 1..Len(s) : s[i] = s[j]

\* the 0-based positions i, i+p, i+2p, ... of a series of length n
Phase(i, p, n) == {k \in 0..(n - 1) : k % p = i}

RECURSIVE RatSumOver(_, _)
RatSumOver(sf, S) ==
    IF S = {} THEN <<0, 1>>
    ELSE LET k == CHOOSE x \in S : TRUE
         IN  RatAdd(sf[k + 1], RatSumOver(sf, S \ {k}))

RatTimes(a, k) == Rat(a[1] * k, a[2])

\* the forecast column back on the scale of the observations
Unlog(x) == IF log THEN Exp(x) ELSE x

(***************************************************************************)
(* C1, as amended: the table winters.forecast returns has len(input) + p   *)
(* rows for the detected period p; its dates run day by day from the       *)
(* input's first date, the last p of them being the p days after the       *)
(* input's last date; FORECAST holds the fitted values on the input dates  *)
(* and then the p forecast values, each exponentiated when log is set.     *)
(***************************************************************************)
ForecastShape ==
    /\ Len(Out.index) = N + period
    /\ \A i \in 1..Len(Out.index) : Out.index[i] = InputIndex[1] + (i - 1)
    /\ \A j \in 1..period : Out.index[N + j] = InputIndex[N] + j
    /\ Len(Out.cols.FORECAST) = N + period

C1_ForecastTable ==
    Returned("forecast") =>
        /\ period >= 1
        /\ ForecastShape
        /\ \A i \in 1..N : Out.cols.FORECAST[i] = Unlog(fit.fittedvalues[i])
        /\ \A j \in 1..period :
               Out.cols.FORECAST[N + j] =
                   Unlog(Forecast(N, fit.base, log, period)[j])

C1_Witness == Returned("forecast") /\ period >= 2 /\ log

\* C1 as stated: FORECAST holds the fitted values and the forecast values
\* themselves, whatever the log flag.
C1_AsStated ==
    Returned("forecast") =>
        /\ period >= 1
        /\ ForecastShape
        /\ \A i \in 1..N : Out.cols.FORECAST[i] = fit.fittedvalues[i]
        /\ \A j \in 1..period :
               Out.cols.FORECAST[N + j] = Forecast(N, fit.base, log, period)[j]

(***************************************************************************)
(* C2: once _get_period has chosen a candidate period, the correlation is  *)
(* that of series[candidate:] with series[:-candidate]; the result is      *)
(* (1, correlation) if the correlation is below corr_threshold or the      *)
(* candidate is 1, and (candidate, correlation) otherwise; so a period     *)
(* above 1 is returned only with a correlation that is not below the       *)
(* threshold.                                                              *)
(***************************************************************************)
C2_ThresholdRule ==
    Detected /\ peaks # <<>> =>
        /\ corr = Corrcoef(DropFirst(Input, candidate), DropLast(Input, candidate))
        /\ period = IF IsBelow(corr, corr_threshold) \/ candidate = 1
                    THEN 1 ELSE candidate
        /\ period > 1 => corr.nan \/ AtLeast(corr, corr_threshold)
        /\ Returned("get_period") => result = <<period, corr>>

C2_Witness ==
    /\ Returned("get_period")
    /\ candidate > 1
    /\ IsBelow(corr, corr_threshold)
    /\ result[1] = 1

(***************************************************************************)
(* C3: for a non-empty constant series _get_period finds no candidate      *)
(* peak and returns (1, 0).                                                *)
(***************************************************************************)
C3_ConstantSeries ==
    Detected /\ IsConstant(Input) =>
        /\ peaks = <<>>
        /\ period = 1
        /\ corr = Zero
        /\ Returned("get_period") => result = <<1, Zero>>

C3_Witness ==
    /\ Returned("get_period")
    /\ IsConstant(Input)
    /\ N >= 3
    /\ Input[1] > 0

(***************************************************************************)
(* C4: _get_initial_params returns an initial_seasonal of exactly p        *)
(* entries for a period p >= 2, entry i being the mean of the seasonal     *)
(* factors at the positions i, i+p, i+2p, ...; for p = 1 it returns [1].   *)
(***************************************************************************)
C4_InitialSeasonal ==
    pc = "params" =>
        LET sf == heap[df_log].cols["Seasonal Factor"]
            is == params.initial_seasonal
        IN  /\ period >= 2 =>
                /\ Len(is) = period
                /\ \A i \in 0..(period - 1) :
                       /\ Phase(i, period, N) # {}
                       /\ RatTimes(is[i + 1], Cardinality(Phase(i, period, N)))
                              = RatSumOver(sf, Phase(i, period, N))
            /\ period = 1 => is = <<One>>

C4_Witness ==
    /\ pc = "params"
    /\ period >= 2
    /\ \E i, j \in 1..period :
           params.initial_seasonal[i] # params.initial_seasonal[j]

(***************************************************************************)
(* C5: on every input date the value column of the table winters.forecast  *)
(* returns equals the input's value on that date, and the caller's table   *)
(* is unchanged.                                                           *)
(***************************************************************************)
C5_ValuesKept ==
    Returned("forecast") =>
        /\ \A i \in 1..N : Out.cols.value[i] = passed.cols.value[i]
        /\ \A i \in 1..N : Out.index[i] = passed.index[i]
        /\ InputUnchanged

(***************************************************************************)
(* C6, as amended: the table arima_final.forecast returns ends 7 days      *)
(* after the input's last date, whatever `periods` is: the predictions     *)
(* start periods - 1 days before the last date and number periods + 7.     *)
(***************************************************************************)
LastDate(t) == t.index[Len(t.index)]

C6_ArimaExtent ==
    Returned("arima") =>
        /\ LastDate(Out) = LastDate(passed) + EXTRA_DAYS
        /\ Len(Out.index) = N + EXTRA_DAYS
        /\ Out.cols.FORECAST[N - periods + 1] # NaN
        /\ \A i \in 1..(N - periods) : Out.cols.FORECAST[i] = NaN

C6_Witness == Returned("arima") /\ periods >= 2

\* C6 as stated: the last date is the input's last date plus periods + 7.
C6_AsStated ==
    Returned("arima") => LastDate(Out) = LastDate(passed) + (periods + EXTRA_DAYS)

(***************************************************************************)
(* C7: when the detected period needs more observations than the series    *)
(* has (fewer than 2 x period), winters.forecast gets no further than the  *)
(* seasonal decomposition: the only error it ends with is the one the      *)
(* decomposition raises, nothing is returned, the period is not replaced,  *)
(* and the caller's table is unchanged.                                    *)
(***************************************************************************)
C7_DecompositionError ==
    entry = "forecast" /\ Detected /\ N < 2 * period =>
        /\ pc \in {"period", "prepared", "raised"}
        /\ pc = "raised" => err = "seasonal_decompose"
        /\ pc # "raised" => err = None
        /\ result = None
        /\ params = None
        /\ fit = None
        /\ period = IF peaks = <<>> \/ IsBelow(corr, corr_threshold)
                    THEN 1 ELSE candidate
        /\ InputUnchanged

C7_Witness ==
    /\ entry = "forecast"
    /\ pc = "raised"
    /\ err = "seasonal_decompose"
    /\ period >= 2
    /\ N < 2 * period

(***************************************************************************)
(* C8: the candidate peaks are exactly the lags i, 1 <= i <= n - 2, with   *)
(* sign(acf[i] - acf[i-1]) > sign(acf[i+1] - acf[i]); each is a non-strict *)
(* local maximum of the autocorrelation; the candidate period is the       *)
(* candidate peak with the largest autocorrelation, the smallest lag       *)
(* among those that tie.                                                   *)
(***************************************************************************)
C8_PeakSelection ==
    Detected =>
        /\ SeqRange(peaks) = PeakLags
        /\ \A i, j \in 1..Len(peaks) : i < j => peaks[i] < peaks[j]
        /\ \A i \in PeakLags :
               AcfAt(i) >= AcfAt(i - 1) /\ AcfAt(i) >= AcfAt(i + 1)
        /\ peaks # <<>> =>
               /\ candidate \in PeakLags
               /\ \A j \in PeakLags :
                      \/ AcfAt(j) < AcfAt(candidate)
                      \/ AcfAt(j) = AcfAt(candidate) /\ candidate <= j
        /\ peaks = <<>> => candidate = 0

C8_Witness ==
    /\ Detected
    /\ \E i, j \in PeakLags :
           i < j /\ AcfAt(i) = AcfAt(j) /\ candidate = i

(***************************************************************************)
(* C9: the correlation _get_period returns is a number in [-1, 1] for      *)
(* every series: 0 without a candidate peak, the Pearson correlation of    *)
(* the two segments otherwise.                                             *)
(***************************************************************************)
C9_CorrelationDefined ==
    Detected =>
        /\ ~corr.nan
        /\ corr.c * corr.c <= corr.v
        /\ peaks = <<>> => corr = Zero

(***************************************************************************)
(* C10: 1 <= period <= max(1, n - 2); when the correlation is computed     *)
(* the two segments have the same length n - candidate >= 2; nothing       *)
(* bounds the period by n / 2 (the witness has 2 x period > n).            *)
(***************************************************************************)
C10_PeriodRange ==
    Detected =>
        /\ 1 <= period
        /\ period <= Max(1, N - 2)
        /\ peaks # <<>> =>
               /\ Len(DropFirst(Input, candidate)) = N - candidate
               /\ Len(DropLast(Input, candidate)) = N - candidate
               /\ N - candidate >= 2

C10_Witness == Detected /\ period > 1 /\ 2 * period > N

====
